---- MODULE Spec2Model ----
(***************************************************************************)
(* Patient registry: the /signup and /search handlers of project/main.py,  *)
(* the WTForms validators of project/signup.py, the Patient table and the  *)
(* startup create_all retry loop.                                          *)
(*                                                                         *)
(* Strings are sequences of one-character strings, so that lengths, the    *)
(* e-mail and date syntax and the text <-> integer conversions of the      *)
(* national id are computed and not assumed.                               *)
(***************************************************************************)
EXTENDS Integers, Sequences, FiniteSets, TLC

(* ------------------------------------------------------------------ *)
(* Bounds of the model                                                 *)
(* ------------------------------------------------------------------ *)

\* national ids range over 1..MaxNID (as decimal text in the forms)
MaxNID == 2

\* request-handling threads of the (threaded) development server
Workers == {1, 2}

(* ------------------------------------------------------------------ *)
(* Text helpers                                                        *)
(* ------------------------------------------------------------------ *)

DigitChars == <<"0", "1", "2", "3", "4", "5", "6", "7", "8", "9">>

Digits == {DigitChars[i] : i \in 1..10}

DigitVal(c) == (CHOOSE i \in 1..10 : DigitChars[i] = c) - 1

IsDigits(s) == Len(s) > 0 /\ \A i \in 1..Len(s) : s[i] \in Digits

RECURSIVE StrToInt(_)
StrToInt(s) ==
    IF Len(s) = 0 THEN 0
    ELSE 10 * StrToInt(SubSeq(s, 1, Len(s) - 1)) + DigitVal(s[Len(s)])

RECURSIVE IntToStr(_)
IntToStr(n) ==
    IF n < 10 THEN <<DigitChars[n + 1]>>
    ELSE IntToStr(n \div 10) \o <<DigitChars[(n % 10) + 1]>>

RECURSIVE ZeroPad(_, _)
ZeroPad(s, width) == IF Len(s) >= width THEN s ELSE ZeroPad(<<"0">> \o s, width)

RECURSIVE Split(_, _)
Split(s, sep) ==
    IF \A i \in 1..Len(s) : s[i] # sep THEN <<s>>
    ELSE LET i == CHOOSE k \in 1..Len(s) :
                      s[k] = sep /\ \A j \in 1..(k - 1) : s[j] # sep
         IN  <<SubSeq(s, 1, i - 1)>> \o Split(SubSeq(s, i + 1, Len(s)), sep)

Repeat(c, n) == [i \in 1..n |-> c]

(* ------------------------------------------------------------------ *)
(* wtforms validators (project/signup.py)                              *)
(* ------------------------------------------------------------------ *)

\* DataRequired(): the data is non-empty and not only whitespace
DataRequired(s) == Len(s) > 0 /\ \E i \in 1..Len(s) : s[i] # " "

\* Length(min=lo, max=hi)
Length(s, lo, hi) == Len(s) >= lo /\ Len(s) <= hi

\* Email(): one "@", a non-empty local part, a dotted domain of non-empty labels
Email(s) ==
    LET parts == Split(s, "@")
    IN  /\ Len(parts) = 2
        /\ Len(parts[1]) > 0
        /\ \A i \in 1..Len(s) : s[i] # " "
        /\ LET labels == Split(parts[2], ".")
           IN  Len(labels) >= 2 /\ \A k \in 1..Len(labels) : Len(labels[k]) > 0

\* variant: the confirmation field without its EqualTo validator
EqualToNoCheck(s, other) == TRUE

\* EqualTo("password")
EqualTo(s, other) == s = other

IsLeap(y) == (y % 4 = 0 /\ y % 100 # 0) \/ y % 400 = 0

DaysIn(y, m) ==
    IF m = 2 THEN (IF IsLeap(y) THEN 29 ELSE 28)
    ELSE IF m \in {4, 6, 9, 11} THEN 30 ELSE 31

NoDate == [ok |-> FALSE, y |-> 0, m |-> 0, d |-> 0]

\* DateField(format="%Y-%m-%d"): strptime, %Y four digits, %m and %d one or two
ParseDate(s) ==
    LET p == Split(s, "-")
    IN  IF /\ Len(p) = 3
           /\ IsDigits(p[1]) /\ Len(p[1]) = 4
           /\ IsDigits(p[2]) /\ Len(p[2]) <= 2
           /\ IsDigits(p[3]) /\ Len(p[3]) <= 2
        THEN LET y == StrToInt(p[1])
                 m == StrToInt(p[2])
                 d == StrToInt(p[3])
             IN  IF y >= 1 /\ m \in 1..12 /\ d >= 1 /\ d <= DaysIn(y, m)
                 THEN [ok |-> TRUE, y |-> y, m |-> m, d |-> d]
                 ELSE NoDate
        ELSE NoDate

\* str(datetime.date): ISO format, which is also what the TEXT column receives
DateToStr(dt) ==
    ZeroPad(IntToStr(dt.y), 4) \o <<"-">> \o ZeroPad(IntToStr(dt.m), 2)
        \o <<"-">> \o ZeroPad(IntToStr(dt.d), 2)

\* class Signup(FlaskForm): every field's validator chain
SignupValidate(f) ==
    /\ DataRequired(f.username) /\ Length(f.username, 0, 20)
    /\ DataRequired(f.email) /\ Email(f.email)
    /\ DataRequired(f.password) /\ Length(f.password, 3, 20)
    /\ DataRequired(f.Re_password) /\ EqualTo(f.Re_password, f.password)
    /\ DataRequired(f.Fname) /\ Length(f.Fname, 0, 10)
    /\ DataRequired(f.Lname) /\ Length(f.Lname, 0, 10)
    /\ DataRequired(f.NID)
    /\ ParseDate(f.BD).ok

\* class Search(FlaskForm): declared, the validator chain of its NID field
SearchValidate(f) == DataRequired(f.NID)

(* ------------------------------------------------------------------ *)
(* Request inputs                                                      *)
(* ------------------------------------------------------------------ *)

\* the two registrations of test_signup_post_duplicate_nid, without the id
Data1 ==
    [username    |-> <<"t","e","s","t","u","s","e","r">>,
     email       |-> <<"t","e","s","t","@","e","x","a","m","p","l","e",".","c","o","m">>,
     password    |-> <<"t","e","s","t","p","a","s","s">>,
     Re_password |-> <<"t","e","s","t","p","a","s","s">>,
     Fname       |-> <<"T","e","s","t">>,
     Lname       |-> <<"U","s","e","r">>,
     NID         |-> <<>>,
     BD          |-> <<"2","0","0","0","-","0","1","-","0","1">>]

Data2 ==
    [username    |-> <<"a","n","o","t","h","e","r","u","s","e","r">>,
     email       |-> <<"a","n","o","t","h","e","r","@","e","x","a","m","p","l","e",".","c","o","m">>,
     password    |-> <<"p","a","s","s","1","2","3">>,
     Re_password |-> <<"p","a","s","s","1","2","3">>,
     Fname       |-> <<"A","n","o","t","h","e","r">>,
     Lname       |-> <<"U","s","e","r">>,
     NID         |-> <<>>,
     BD          |-> <<"1","9","9","0","-","0","1","-","0","1">>]

\* id tokens a client may send: decimal ids, a zero-padded one, a word, nothing
NIDTokens ==
    {IntToStr(n) : n \in 1..MaxNID} \cup {<<"0", "1">>, <<"x">>, <<>>}

\* registrations whose every field passes its validators: each id for the
\* first person, and id 1 (plain and zero-padded) for the second as well
WellFormed ==
    {[Data1 EXCEPT !.NID = t] : t \in NIDTokens \ {<<"0", "1">>, <<>>}}
        \cup {[Data2 EXCEPT !.NID = t] : t \in {<<"1">>, <<"0", "1">>}}

Base == [Data1 EXCEPT !.NID = <<"1">>]

\* Base with one field broken, one form per validator
Malformed ==
    {[Base EXCEPT !.username = <<>>],
     [Base EXCEPT !.username = Repeat("u", 21)],
     [Base EXCEPT !.email = <<"n","o","t","-","a","n","-","e","m","a","i","l">>],
     [Base EXCEPT !.password = <<"a","b">>, !.Re_password = <<"a","b">>],
     [Base EXCEPT !.Re_password = <<"p","a","s","s","1","2","3">>],
     [Base EXCEPT !.Fname = Repeat("f", 11)],
     [Base EXCEPT !.NID = <<>>],
     [Base EXCEPT !.BD = <<"2","0","0","1","-","0","2","-","2","9">>]}

SignupForms == WellFormed \cup Malformed

SearchForms == {[NID |-> t] : t \in NIDTokens}

NoForm == [NID |-> <<>>]

(* ------------------------------------------------------------------ *)
(* The Patient table (main.py, class Patient) on SQLite                *)
(* ------------------------------------------------------------------ *)

\* Patient(NID=..., username=..., ...) as the row the INSERT stores: the
\* INTEGER key column holds the integer the text denotes, BD the ISO date
PatientRow(f) ==
    [NID      |-> StrToInt(f.NID),
     username |-> f.username,
     password |-> f.password,
     mail     |-> f.email,
     Fname    |-> f.Fname,
     Lname    |-> f.Lname,
     BD       |-> DateToStr(ParseDate(f.BD))]

\* Patient.query.filter_by(NID=token): the key column has INTEGER affinity,
\* so numeric text is compared as the integer it denotes, other text matches
\* no row
FilterByNID(st, token) ==
    {r \in st : IsDigits(token) /\ r.NID = StrToInt(token)}

\* variant: the key column without its primary-key constraint
NoPrimaryKey(st, nid) == FALSE

\* NID = db.Column(db.Integer, primary_key=True)
PrimaryKeyViolated(st, nid) == \E r \in st : r.NID = nid

\* variant: session.merge instead of add, replacing the row of the same key
OverwritingInsert(st, f) ==
    IF ~IsDigits(f.NID) THEN [store |-> st, cause |-> "datatype"]
    ELSE [store |-> {r \in st : r.NID # StrToInt(f.NID)} \cup {PatientRow(f)},
          cause |-> "none"]

\* db.session.add(patient); db.session.commit() when the database answers:
\* one transaction, which stores the row or raises and stores nothing
AddAndCommit(st, f) ==
    IF ~IsDigits(f.NID) THEN [store |-> st, cause |-> "datatype"]
    ELSE IF PrimaryKeyViolated(st, StrToInt(f.NID))
         THEN [store |-> st, cause |-> "integrity"]
         ELSE [store |-> st \cup {PatientRow(f)}, cause |-> "none"]

(* ------------------------------------------------------------------ *)
(* State                                                               *)
(* ------------------------------------------------------------------ *)

VARIABLES
    pc_main,               \* position of the __main__ block
    attempt,               \* loop variable of the retry loop
    database_initialized,  \* main.py:151
    calls,                 \* number of db.create_all() calls made
    store,                 \* rows of table Patient
    pc,                    \* per thread: position in its handler
    req,                   \* per thread: "none", "signup" or "search"
    form,                  \* per thread: the submitted form
    dbcalls,               \* per thread: persistence calls made for the request
    resp                   \* per thread: the response of the request

vars == <<pc_main, attempt, database_initialized, calls, store,
          pc, req, form, dbcalls, resp>>

main_vars == <<pc_main, attempt, database_initialized, calls>>

\* max_retries = 3
max_retries == 3

NoResp == [outcome |-> "none", cause |-> "none", output |-> <<>>]

Init ==
    /\ pc_main = "create_all"
    /\ attempt = 0
    /\ database_initialized = FALSE
    /\ calls = 0
    /\ store = {}
    /\ pc = [w \in Workers |-> "idle"]
    /\ req = [w \in Workers |-> "none"]
    /\ form = [w \in Workers |-> NoForm]
    /\ dbcalls = [w \in Workers |-> 0]
    /\ resp = [w \in Workers |-> NoResp]

(* ------------------------------------------------------------------ *)
(* Startup: the create_all retry loop (main.py:149-172)                *)
(* ------------------------------------------------------------------ *)

\* variant: the loop without its break
NoBreak(ok) == FALSE

\* database_initialized = True; break
Breaks(ok) == ok

\* for attempt in range(max_retries): is there a next iteration
HasNext(a) == a + 1 < max_retries

CreateAll ==
    /\ pc_main = "create_all"
    /\ \E ok \in BOOLEAN :
          /\ calls' = calls + 1
          /\ database_initialized' = (database_initialized \/ ok)
          /\ pc_main' = IF Breaks(ok) THEN "starting"
                        ELSE IF HasNext(attempt) THEN "sleep" ELSE "starting"
    /\ UNCHANGED <<attempt, store, pc, req, form, dbcalls, resp>>

\* time.sleep(1), then the next iteration
Sleep ==
    /\ pc_main = "sleep"
    /\ attempt' = attempt + 1
    /\ pc_main' = "create_all"
    /\ UNCHANGED <<database_initialized, calls, store, pc, req, form,
                   dbcalls, resp>>

\* app.run(...): from here on requests are served
AppRun ==
    /\ pc_main = "starting"
    /\ pc_main' = "serving"
    /\ UNCHANGED <<attempt, database_initialized, calls, store, pc, req, form,
                   dbcalls, resp>>

Main == CreateAll \/ Sleep \/ AppRun

(* ------------------------------------------------------------------ *)
(* Request handlers (main.py, register_routes)                         *)
(* ------------------------------------------------------------------ *)

\* a persistence call may raise (storage unavailable); with the tables never
\* created it always raises
StorageFaults == IF database_initialized THEN BOOLEAN ELSE {TRUE}

\* variant: the handler without its try/except, the exception escapes
SignupPropagates == "crash"

\* except Exception in signup: the signup page with the database error text
SignupOnException == "db_error"

\* except Exception in search: the search page with the database error text
SearchOnException == "db_error"

Response(o, c, out) == [outcome |-> o, cause |-> c, output |-> out]

\* .first()
First(rows) == CHOOSE r \in rows : TRUE

\* variant: the branch without its "patient is None" test
ShouldInsertUnchecked(rows, f) == f.password = f.Re_password

\* if (patient is None) and (password == form.Re_password.data)
ShouldInsert(rows, f) == rows = {} /\ f.password = f.Re_password

\* the text of out.html after a registration: the submitted values
CreatedOutput(f) ==
    <<f.username, f.NID, f.email, f.Fname, f.Lname, DateToStr(ParseDate(f.BD))>>

\* the text of out.html after a search: username, NID and mail of the row
FoundOutput(r) == <<r.username, IntToStr(r.NID), r.mail>>

\* variant: .one() instead of .first(), no row raises into the except branch
SearchPageOne(rows) ==
    IF rows = {} THEN Response(SearchOnException, "no_result", <<>>)
    ELSE Response("found", "none", FoundOutput(First(rows)))

\* if patient is None: "Cant Find a User", else the row's values
SearchPage(rows) ==
    IF rows = {} THEN Response("not_found", "none", <<>>)
    ELSE Response("found", "none", FoundOutput(First(rows)))

\* POST /signup: form = Signup(); form.validate_on_submit()
PostSignup(w) ==
    /\ pc_main = "serving"
    /\ pc[w] = "idle"
    /\ \E f \in SignupForms :
          /\ req' = [req EXCEPT ![w] = "signup"]
          /\ form' = [form EXCEPT ![w] = f]
          /\ dbcalls' = [dbcalls EXCEPT ![w] = 0]
          /\ IF SignupValidate(f)
             THEN /\ pc' = [pc EXCEPT ![w] = "signup_query"]
                  /\ resp' = [resp EXCEPT ![w] = NoResp]
             ELSE /\ pc' = [pc EXCEPT ![w] = "idle"]
                  /\ resp' = [resp EXCEPT ![w] =
                                 Response("validation_error", "none", <<>>)]
    /\ UNCHANGED <<main_vars, store>>

\* patient = Patient.query.filter_by(NID=form.NID.data).first(), then the branch
SignupQuery(w) ==
    /\ pc[w] = "signup_query"
    /\ dbcalls' = [dbcalls EXCEPT ![w] = @ + 1]
    /\ \E fault \in StorageFaults :
          IF fault
          THEN /\ resp' = [resp EXCEPT ![w] =
                              Response(SignupOnException, "unavailable", <<>>)]
               /\ pc' = [pc EXCEPT ![w] = "idle"]
          ELSE LET rows == FilterByNID(store, form[w].NID)
               IN  /\ IF ShouldInsert(rows, form[w])
                      THEN /\ pc' = [pc EXCEPT ![w] = "signup_commit"]
                           /\ UNCHANGED resp
                      ELSE /\ pc' = [pc EXCEPT ![w] = "idle"]
                           /\ resp' = [resp EXCEPT ![w] =
                                          Response("duplicate", "none", <<>>)]
    /\ UNCHANGED <<main_vars, store, req, form>>

\* patient = Patient(...); db.session.add(patient); db.session.commit()
SignupCommit(w) ==
    /\ pc[w] = "signup_commit"
    /\ dbcalls' = [dbcalls EXCEPT ![w] = @ + 1]
    /\ pc' = [pc EXCEPT ![w] = "idle"]
    /\ \E fault \in StorageFaults :
          IF fault
          THEN /\ resp' = [resp EXCEPT ![w] =
                              Response(SignupOnException, "unavailable", <<>>)]
               /\ UNCHANGED store
          ELSE LET done == AddAndCommit(store, form[w])
               IN  /\ store' = done.store
                   /\ resp' = [resp EXCEPT ![w] =
                                  IF done.cause = "none"
                                  THEN Response("created", "none",
                                                CreatedOutput(form[w]))
                                  ELSE Response(SignupOnException, done.cause,
                                                <<>>)]
    /\ UNCHANGED <<main_vars, req, form>>

\* POST /search: form = Search(); the handler never calls form.validate()
PostSearch(w) ==
    /\ pc_main = "serving"
    /\ pc[w] = "idle"
    /\ \E f \in SearchForms :
          /\ req' = [req EXCEPT ![w] = "search"]
          /\ form' = [form EXCEPT ![w] = f]
    /\ dbcalls' = [dbcalls EXCEPT ![w] = 0]
    /\ pc' = [pc EXCEPT ![w] = "search_query"]
    /\ resp' = [resp EXCEPT ![w] = NoResp]
    /\ UNCHANGED <<main_vars, store>>

\* patient = Patient.query.filter_by(NID=form.NID.data).first(), then the page
SearchQuery(w) ==
    /\ pc[w] = "search_query"
    /\ dbcalls' = [dbcalls EXCEPT ![w] = @ + 1]
    /\ pc' = [pc EXCEPT ![w] = "idle"]
    /\ \E fault \in StorageFaults :
          IF fault
          THEN resp' = [resp EXCEPT ![w] =
                           Response(SearchOnException, "unavailable", <<>>)]
          ELSE LET rows == FilterByNID(store, form[w].NID)
               IN  resp' = [resp EXCEPT ![w] = SearchPage(rows)]
    /\ UNCHANGED <<main_vars, store, req, form>>

\* GET /, GET /signup, GET /search: a page is rendered, nothing else
GetPage(w) ==
    /\ pc_main = "serving"
    /\ pc[w] = "idle"
    /\ req' = [req EXCEPT ![w] = "get"]
    /\ form' = [form EXCEPT ![w] = NoForm]
    /\ dbcalls' = [dbcalls EXCEPT ![w] = 0]
    /\ resp' = [resp EXCEPT ![w] = Response("page", "none", <<>>)]
    /\ UNCHANGED <<main_vars, store, pc>>

\* GET /health: SELECT 1 inside try/except, status 200 either way
HealthCheck(w) ==
    /\ pc_main = "serving"
    /\ pc[w] = "idle"
    /\ req' = [req EXCEPT ![w] = "health"]
    /\ form' = [form EXCEPT ![w] = NoForm]
    /\ dbcalls' = [dbcalls EXCEPT ![w] = 1]
    /\ \E fault \in StorageFaults :
          resp' = [resp EXCEPT ![w] =
                      IF fault THEN Response("disconnected", "unavailable", <<>>)
                      ELSE Response("connected", "none", <<>>)]
    /\ UNCHANGED <<main_vars, store, pc>>

Handle(w) ==
    \/ GetPage(w)
    \/ HealthCheck(w)
    \/ PostSignup(w)
    \/ SignupQuery(w)
    \/ SignupCommit(w)
    \/ PostSearch(w)
    \/ SearchQuery(w)

(* ------------------------------------------------------------------ *)
(* Specifications                                                      *)
(* ------------------------------------------------------------------ *)

\* requests are handled concurrently, their store steps interleave
Next == Main \/ \E w \in Workers : Handle(w)

Spec == Init /\ [][Next]_vars

\* one request at a time
SeqNext == Main \/ Handle(1)

SeqSpec == Init /\ [][SeqNext]_vars

\* the __main__ block is straight-line code: it keeps running
LiveSpec == SeqSpec /\ WF_vars(Main)

(* ------------------------------------------------------------------ *)
(* Properties                                                          *)
(* ------------------------------------------------------------------ *)

\* the id the token denotes is the key of a stored row
Stored(st, token) == IsDigits(token) /\ \E r \in st : r.NID = StrToInt(token)

\* thread w's request is answered
Answered(w, kind) == req[w] = kind /\ pc[w] = "idle"

\* this step is a persistence call of thread w's registration or search
StoreCall(w) ==
    /\ pc[w] \in {"signup_query", "signup_commit", "search_query"}
    /\ dbcalls'[w] = dbcalls[w] + 1

\* ... and the storage was available to answer it
StoreAnswered(w) == StoreCall(w) /\ resp'[w].cause # "unavailable"

\* C1: after any sequence of registration and search requests the Patient
\* table never holds two rows with the same national id.
NationalIdUnique ==
    \A r1 \in store : \A r2 \in store : r1.NID = r2.NID => r1 = r2

\* C1 witness: a second insert of a stored id reached the table and was refused
SecondInsertRefused ==
    \E w \in Workers :
        /\ Answered(w, "signup")
        /\ resp[w].cause = "integrity"
        /\ Stored(store, form[w].NID)

\* C2: a registration that passes validation and whose id is already stored
\* (when its existence check is answered) gets the duplicate outcome, and the
\* table is left as it was: no row is overwritten, none is added.
DuplicateIsRejected ==
    [][\A w \in Workers :
          (/\ pc[w] = "signup_query"
           /\ StoreAnswered(w)
           /\ Stored(store, form[w].NID))
          => (/\ resp'[w].outcome = "duplicate"
              /\ pc'[w] = "idle"
              /\ store' = store)]_vars

\* C2 witness: the duplicate outcome for a form whose values differ from the
\* stored row of the same id
DuplicateWithOtherValues ==
    \E w \in Workers :
        /\ Answered(w, "signup")
        /\ resp[w].outcome = "duplicate"
        /\ \E r \in store :
              /\ r.NID = StrToInt(form[w].NID)
              /\ r.username # form[w].username

\* C3: of two registrations with the same id whose steps interleave, at most
\* one is created and the other one gets the duplicate outcome.
RaceLoserSeesDuplicate ==
    \A w1 \in Workers : \A w2 \in Workers \ {w1} :
        (/\ Answered(w1, "signup") /\ Answered(w2, "signup")
         /\ IsDigits(form[w1].NID) /\ IsDigits(form[w2].NID)
         /\ StrToInt(form[w1].NID) = StrToInt(form[w2].NID)
         /\ resp[w1].outcome = "created"
         /\ resp[w2].outcome # "validation_error"
         /\ resp[w2].cause # "unavailable")
        => resp[w2].outcome = "duplicate"

\* C4: every valid registration whose id is not stored is created, and a
\* later search for that id is answered found with the submitted username,
\* id and e-mail.
FreshRegistrationIsFound ==
    [][\A w \in Workers :
          /\ (/\ req[w] = "signup" /\ pc[w] # "idle" /\ pc'[w] = "idle"
              /\ StoreAnswered(w)
              /\ ~Stored(store, form[w].NID))
             => (/\ resp'[w].outcome = "created"
                 /\ \E r \in store' :
                       /\ IsDigits(form[w].NID)
                       /\ r.NID = StrToInt(form[w].NID)
                       /\ r.username = form[w].username
                       /\ r.mail = form[w].email)
          /\ (/\ pc[w] = "search_query"
              /\ StoreAnswered(w))
             => \A r \in store :
                   (IsDigits(form[w].NID) /\ r.NID = StrToInt(form[w].NID))
                   => (/\ resp'[w].outcome = "found"
                       /\ resp'[w].output[1] = r.username
                       /\ StrToInt(resp'[w].output[2]) = r.NID
                       /\ resp'[w].output[3] = r.mail)]_vars

\* C5: a search with a non-empty id that was never inserted is answered
\* not_found: never found, and no error when the storage answers.
UnknownIdNotFound ==
    [][\A w \in Workers :
          (/\ pc[w] = "search_query"
           /\ StoreCall(w)
           /\ DataRequired(form[w].NID)
           /\ ~Stored(store, form[w].NID))
          => (/\ resp'[w].outcome # "found"
              /\ resp'[w].cause # "unavailable"
                 => (/\ resp'[w].outcome = "not_found"
                     /\ resp'[w].cause = "none"
                     /\ resp'[w].output = <<>>))]_vars

\* C5 witness: not_found for a numeric id while other ids are stored
NotFoundBesideOthers ==
    \E w \in Workers :
        /\ Answered(w, "search")
        /\ resp[w].outcome = "not_found"
        /\ IsDigits(form[w].NID)
        /\ store # {}

\* C6: a registration whose password differs from its confirmation, and any
\* registration that fails validation, is answered with the validation
\* outcome, never duplicate or created, without any call to the store.
MismatchNeverReachesStore ==
    \A w \in Workers :
        req[w] = "signup" =>
            /\ (form[w].password # form[w].Re_password \/ ~SignupValidate(form[w]))
               => (/\ pc[w] = "idle"
                   /\ resp[w].outcome = "validation_error"
                   /\ dbcalls[w] = 0)
            /\ resp[w].outcome = "validation_error" => dbcalls[w] = 0

\* C6 witness: a password mismatch is answered while its id is stored
MismatchWithStoredId ==
    \E w \in Workers :
        /\ Answered(w, "signup")
        /\ form[w].password # form[w].Re_password
        /\ resp[w].outcome = "validation_error"
        /\ Stored(store, form[w].NID)

\* C7: a search with an empty id is answered invalid_input and makes no
\* lookup; only a request that passes the non-empty check reaches the store.
EmptySearchIsInvalid ==
    \A w \in Workers :
        (req[w] = "search" /\ ~SearchValidate(form[w]))
        => (/\ dbcalls[w] = 0
            /\ pc[w] = "idle" => resp[w].outcome = "invalid_input")

\* C8: when the persistence layer raises during the existence check, the
\* add and commit, or the lookup, the request ends with the database error
\* outcome, the fault is not propagated, and the table is left as it was.
FaultsAreCaught ==
    [][\A w \in Workers :
          (StoreCall(w) /\ resp'[w].cause # "none")
          => (/\ resp'[w].outcome = "db_error"
              /\ pc'[w] = "idle"
              /\ store' = store)]_vars

\* C8 witness: the commit of a registration raised while rows are stored
CommitFaulted ==
    \E w \in Workers :
        /\ Answered(w, "signup")
        /\ resp[w].cause = "unavailable"
        /\ dbcalls[w] = 2
        /\ store # {}

\* C9: the table only grows: no step removes or changes a row, a search
\* changes nothing, and a search for a stored id is answered found with that
\* row's values in every later state.
StoreOnlyGrows ==
    [][/\ store \subseteq store'
       /\ \A w \in Workers :
             req[w] = "search" /\ StoreCall(w)
             => (/\ store' = store
                 /\ resp'[w].cause # "unavailable"
                    => \A r \in store :
                          Stored({r}, form[w].NID)
                          => resp'[w] = Response("found", "none",
                                  <<r.username, IntToStr(r.NID), r.mail>>))]_vars

\* C9 witness: a row is found while another row has been stored as well
FoundAmongSeveral ==
    \E w \in Workers :
        /\ Answered(w, "search")
        /\ resp[w].outcome = "found"
        /\ Cardinality(store) >= 2

\* C10: the startup loop terminates: at most 3 create_all calls, none after
\* the first that succeeds, and the server is started in every case.
StartupTerminates ==
    /\ [](calls <= 3)
    /\ [][database_initialized => calls' = calls]_vars
    /\ [](pc_main = "serving" => (database_initialized \/ calls = 3))
    /\ <>(pc_main = "serving")

\* C10 witness: the server runs although all 3 attempts failed
ServingUninitialized ==
    /\ pc_main = "serving"
    /\ ~database_initialized
    /\ calls = 3
    /\ \E w \in Workers : resp[w].outcome = "db_error"

====
